---------------------------- MODULE Spec2Model ----------------------------
(***************************************************************************)
(* A model of EquityComparision.py, the Streamlit stock comparator.        *)
(*                                                                         *)
(* Numbers.  A closing price is a rational n/d in units of 1e-8 (the       *)
(* absolute tolerance of np.isclose), so that the values 0, 1e-8 and 2e-8  *)
(* are the integers 0, 1 and 2.  Floating-point arithmetic is modelled by  *)
(* exact rational arithmetic; the one place where the binary              *)
(* representation decides the outcome, the rounding of a decimal tie by    *)
(* the ".2f" format, is a nondeterministic choice between both neighbours. *)
(* A market capitalisation is an integer in units of 1e4, so that 1e6,     *)
(* 1e9 and 1e12 fit TLC's integers.                                        *)
(*                                                                         *)
(* pandas.  A Series is its sequence of values (the index plays no role);  *)
(* Series.__getitem__(0) on the date-indexed one-row Series series.iloc[[0]]*)
(* is positional, as in the pandas releases < 3 the script was written for.*)
(* A DataFrame is [cols, close]: whether it has a Close column, and that   *)
(* column.  pd.DataFrame() has no column; the provider's tables have one.  *)
(*                                                                         *)
(* Specifications.  KernelSpec: one call of compute_returns, format_mcap   *)
(* or the chart loop's body on an input from the bounded sets.  Spec: the  *)
(* first script run of a process, the provider and series.plot answering   *)
(* freely.  ProcessSpec: up to MaxPasses script runs sharing the memo of   *)
(* st.cache_data.                                                          *)
(***************************************************************************)
EXTENDS Integers, Sequences, FiniteSets, TLC

(***************************************************************************)
(* Bounds of the model.                                                    *)
(***************************************************************************)
\* longest Close column of the kernel specification
MaxLen == 3
\* largest absolute price (in units of 1e-8) of the kernel specification
MaxPrice == 3
\* number of ticker symbols the user may type into the three fields
NumTickers == 2
\* number of render passes (script runs) of one process
MaxPasses == 2

(***************************************************************************)
(* Values: cells of a Close column, and scalars.                           *)
(***************************************************************************)
Abs(x) == IF x < 0 THEN -x ELSE x

RECURSIVE GCD(_, _)
GCD(a, b) == IF b = 0 THEN a ELSE GCD(b, a % b)

\* the rational n/d (d # 0) in lowest terms with a positive denominator
Rat(n, d) ==
    LET g == GCD(Abs(n), Abs(d))
        s == IF d < 0 THEN -1 ELSE 1
    IN  [k |-> "num", n |-> s * (n \div g), d |-> Abs(d) \div g]

Num(v) == [k |-> "num", n |-> v, d |-> 1]
\* np.nan / None: a missing observation
NaN == [k |-> "nan", n |-> 0, d |-> 1]
\* a value that is not a number (a string that does not parse as one)
Str == [k |-> "str", n |-> 0, d |-> 1]
\* the outcome of a call that raised (an exception leaves the function)
Raised == [k |-> "raise", n |-> 0, d |-> 1]

\* an array-like value (pd.Series, np.ndarray, list)
Series(s) == [k |-> "series", v |-> s]

\* pd.isna / pd.notna of a scalar
isna(val) == val.k = "nan"
notna(val) == ~isna(val)

\* Series.dropna(): the values that are not missing, in order
dropna(s) == SelectSeq(s, notna)

\* pd.to_numeric(series, errors="coerce"): what is no number becomes NaN
CoerceCell(c) == IF c.k = "num" THEN c ELSE NaN
to_numeric(s) == [i \in 1..Len(s) |-> CoerceCell(s[i])]

\* Series.iloc[[i]]: the one-row Series at position i (-1: the last row)
iloc(s, i) == IF i = -1 THEN <<s[Len(s)]>> ELSE <<s[i + 1]>>

\* the absolute tolerance of np.isclose, 1e-8, in units of 1e-8
Atol == 1

\* np.isclose(x, 0) of a number: |x - 0| <= atol + rtol * |0|
isclose0(x) == Abs(x.n) <= Atol * x.d

\* the arithmetic of line 54 and line 112 on numbers
Div(a, b) == Rat(a.n * b.d, a.d * b.n)
Sub1(a) == Rat(a.n - a.d, a.d)
Mul100(a) == Rat(100 * a.n, a.d)

(***************************************************************************)
(* safe_scalar: the first element of an array-like, NaN of an empty one,   *)
(* the value itself otherwise.                                             *)
(***************************************************************************)
safe_scalar(val) ==
    IF val.k = "series"
    THEN IF Len(val.v) > 0 THEN val.v[1] ELSE NaN
    ELSE val

(***************************************************************************)
(* DataFrames.                                                             *)
(***************************************************************************)
\* pd.DataFrame(): no rows and no columns
EmptyDataFrame == [cols |-> FALSE, close |-> <<>>]
\* a table of the provider: it has a Close column, of zero or more rows
Table(s) == [cols |-> TRUE, close |-> s]
\* DataFrame.empty: an axis of length 0
empty(df) == ~df.cols \/ Len(df.close) = 0

(***************************************************************************)
(* compute_returns.  The result is a number, NaN, or Raised: np.isclose    *)
(* (line 52, outside the try) raises TypeError on a value that is not a    *)
(* number, and the division (line 54, inside the try) raising is caught.   *)
(***************************************************************************)
\* a faulty variant: compute_returns without the dropna of line 47
compute_returns_nodrop(df) ==
    IF empty(df) THEN NaN
    ELSE LET series == df.close
             start_val == safe_scalar(Series(iloc(series, 0)))
             end_val == safe_scalar(Series(iloc(series, -1)))
         IN  IF isna(start_val) THEN NaN
             ELSE IF start_val.k = "str" THEN Raised
             ELSE IF isclose0(start_val) THEN NaN
             ELSE IF end_val.k # "num" THEN NaN
             ELSE Mul100(Sub1(Div(end_val, start_val)))

compute_returns(df) ==
    IF empty(df) THEN NaN
    ELSE LET series == dropna(df.close)
         IN  IF Len(series) = 0 THEN NaN
             ELSE LET start_val == safe_scalar(Series(iloc(series, 0)))
                      end_val == safe_scalar(Series(iloc(series, -1)))
                  IN  IF notna(start_val)
                      THEN IF start_val.k = "str" THEN Raised
                           ELSE IF ~isclose0(start_val)
                           THEN IF end_val.k = "num"
                                THEN Mul100(Sub1(Div(end_val, start_val)))
                                ELSE NaN
                           ELSE NaN
                      ELSE NaN

(***************************************************************************)
(* format_mcap.  Market capitalisations are integers in units of 1e4.  The *)
(* rendering is [suffix, x]: x is the number of hundredths shown before    *)
(* the suffix T, B or M, the plain value where there is no suffix, and 0   *)
(* for "NA".  format_mcap(val) is the set of renderings the script can     *)
(* produce: one, except where val / unit is a decimal tie of ".2f".        *)
(***************************************************************************)
\* 1e6, 1e9 and 1e12 in units of 1e4
Million == 100
Billion == 100000
Trillion == 100000000

\* f"{v/unit:.2f}" as a number of hundredths, v > 0, unit a multiple of 100
Fixed2(v, unit) ==
    LET per == unit \div 100
        lo == v \div per
        r == v % per
    IN  IF 2 * r < per THEN {lo}
        ELSE IF 2 * r > per THEN {lo + 1}
        ELSE {lo, lo + 1}

Shown(suffix, xs) == {[suffix |-> suffix, x |-> x] : x \in xs}

\* a faulty variant: format_mcap with >= for the > of lines 72-76
format_mcap_ge(val0) ==
    LET val == safe_scalar(val0)
    IN  IF isna(val) THEN Shown("NA", {0})
        ELSE IF val.n >= Trillion THEN Shown("T", Fixed2(val.n, Trillion))
        ELSE IF val.n >= Billion THEN Shown("B", Fixed2(val.n, Billion))
        ELSE IF val.n >= Million THEN Shown("M", Fixed2(val.n, Million))
        ELSE Shown("", {val.n})

format_mcap(val0) ==
    LET val == safe_scalar(val0)
    IN  IF isna(val) THEN Shown("NA", {0})
        ELSE IF val.n > Trillion THEN Shown("T", Fixed2(val.n, Trillion))
        ELSE IF val.n > Billion THEN Shown("B", Fixed2(val.n, Billion))
        ELSE IF val.n > Million THEN Shown("M", Fixed2(val.n, Million))
        ELSE Shown("", {val.n})

(***************************************************************************)
(* The body of the chart loop for one ticker (lines 99-119).  The outcome  *)
(* is [k, series, ylabel]: k = "plot" (series handed to series.plot),      *)
(* "skip" (continue at line 107) or "error" (an exception caught at line   *)
(* 118 and reported by st.error); ylabel is the label set on the way, ""   *)
(* if none was.  plotRaises: whether series.plot raises for this ticker.   *)
(***************************************************************************)
Outcome(k, series, ylabel) == [k |-> k, series |-> series, ylabel |-> ylabel]

\* series / base * 100.0
Rebase(series, base) == [i \in 1..Len(series) |-> Mul100(Div(series[i], base))]

\* a faulty variant: the body with base != 0 for the np.isclose of line 111
chart_body_exact0(df, chart_type, plotRaises) ==
    IF ~df.cols THEN Outcome("error", <<>>, "")
    ELSE LET series == dropna(to_numeric(df.close))
         IN  IF Len(series) = 0 THEN Outcome("skip", <<>>, "")
             ELSE LET base == safe_scalar(Series(iloc(series, 0)))
                      rel == chart_type = "Relative Price"
                      out == IF rel /\ notna(base) /\ base.n # 0
                             THEN Rebase(series, base) ELSE series
                      ylabel == IF rel THEN "Relative Price (%)" ELSE "Actual Price"
                  IN  IF plotRaises THEN Outcome("error", <<>>, ylabel)
                      ELSE Outcome("plot", out, ylabel)

chart_body(df, chart_type, plotRaises) ==
    IF ~df.cols THEN Outcome("error", <<>>, "")
    ELSE LET series == dropna(to_numeric(df.close))
         IN  IF Len(series) = 0 THEN Outcome("skip", <<>>, "")
             ELSE LET base == safe_scalar(Series(iloc(series, 0)))
                      rel == chart_type = "Relative Price"
                      out == IF rel /\ notna(base) /\ ~isclose0(base)
                             THEN Rebase(series, base) ELSE series
                      ylabel == IF rel THEN "Relative Price (%)" ELSE "Actual Price"
                  IN  IF plotRaises THEN Outcome("error", <<>>, ylabel)
                      ELSE Outcome("plot", out, ylabel)

(***************************************************************************)
(* The provider (yfinance) and the two fetches.                            *)
(***************************************************************************)
\* yf.Ticker(ticker).history(period=period): a table, or an exception
load_data(out) == IF out = Raised THEN EmptyDataFrame ELSE out

\* yf.Ticker(ticker).fast_info.get("marketCap", np.nan): a number, NaN where
\* the field is missing, or an exception
get_marketcap(out) == IF out = Raised THEN NaN ELSE out

(***************************************************************************)
(* st.cache_data: the memo of load_data, a function from the keys          *)
(* <<ticker, period>> stored so far to the stored tables.                  *)
(***************************************************************************)
cache_hit(c, key) == key \in DOMAIN c

\* a faulty variant: no memo at all
cache_store_nothing(c, key, df) == c

\* a faulty variant: a memo that keeps no empty table
cache_store_unless_empty(c, key, df) ==
    IF df = EmptyDataFrame THEN c
    ELSE [x \in DOMAIN c \cup {key} |-> IF x = key THEN df ELSE c[x]]

\* the memo after load_data(key) returned df
cache_store(c, key, df) ==
    [x \in DOMAIN c \cup {key} |-> IF x = key THEN df ELSE c[x]]

(***************************************************************************)
(* Ordered dictionaries (histories, metrics): sequences of [key, val];     *)
(* assigning to a key that is present replaces its value in place.         *)
(***************************************************************************)
dict_keys(dct) == [j \in 1..Len(dct) |-> dct[j].key]

dict_has(dct, key) == \E j \in 1..Len(dct) : dct[j].key = key

\* a faulty variant: a list of pairs, which keeps duplicates
dict_append_always(dct, key, val) == Append(dct, [key |-> key, val |-> val])

dict_set(dct, key, val) ==
    IF dict_has(dct, key)
    THEN [j \in 1..Len(dct) |-> IF dct[j].key = key
                                 THEN [key |-> key, val |-> val] ELSE dct[j]]
    ELSE Append(dct, [key |-> key, val |-> val])

(***************************************************************************)
(* The inputs.                                                             *)
(***************************************************************************)
TickerNames == <<"RELIANCE.NS", "TCS.NS", "INFY.NS", "SBIN.NS">>
Tickers == {TickerNames[j] : j \in 1..NumTickers}

\* two of the selectbox's four periods: the script only hands the period to
\* the provider and to the memo's key, so two tell same from different
Periods == {"1y", "6mo"}

ChartTypes == {"Relative Price", "Actual Price"}

\* the three text inputs of the sidebar
NumFields == 3

Keys == Tickers \X Periods

RECURSIVE SeqsUpTo(_, _)
SeqsUpTo(S, n) ==
    IF n = 0 THEN {<<>>}
    ELSE LET shorter == SeqsUpTo(S, n - 1)
         IN  shorter \cup {Append(q, x) : q \in {r \in shorter : Len(r) = n - 1}, x \in S}

\* the kernel specification's Close columns
PriceCells == {NaN, Str} \cup {Num(v) : v \in -MaxPrice..MaxPrice}
KernelTables == {EmptyDataFrame} \cup {Table(c) : c \in SeqsUpTo(PriceCells, MaxLen)}

\* the kernel specification's market capitalisations
McapSamples ==
    {NaN} \cup {Num(v) : v \in
        {-Million, 0, 50, Million - 1, Million, Million + 1, 710,
         Billion - 1, Billion, Billion + 1, 101500, 340000,
         Trillion - 1, Trillion, Trillion + 1, 250000000}}

\* what the provider answers to a history request in the pipeline
HistoryOutcomes ==
    {Raised} \cup {Table(c) : c \in
        {<<>>, <<NaN>>, <<Num(2), Num(3)>>, <<Num(0), Num(3)>>, <<Str, Num(2)>>}}

\* what the provider answers to a market-cap request in the pipeline
McapOutcomes == {Raised, NaN, Num(Trillion)}

\* the same for the specification of a whole process (several script runs)
ProcessHistoryOutcomes == {Raised, Table(<<Num(2), Num(3)>>), Table(<<Str>>)}
ProcessMcapOutcomes == {Num(Trillion)}

(***************************************************************************)
(* State.                                                                  *)
(***************************************************************************)
VARIABLES
    pc,          \* where the script run is: idle, load, metrics, table, chart,
                 \* render, done, or crashed (an exception left the script)
    pass,        \* number of script runs started in this process
    stocks,      \* the three ticker fields (line 15)
    period,      \* the selected period (line 20)
    chart_type,  \* the selected chart type (line 21)
    cache,       \* st.cache_data's memo of load_data
    histories,   \* the dict of line 32
    metrics,     \* the dict of line 82
    table,       \* the rows st.dataframe showed (line 92)
    plotted,     \* the lines drawn on the axes: sequence of [key, val]
    errors,      \* the tickers st.error reported (line 119), in order
    ylabel,      \* the axes' y label
    i,           \* position of the running loop
    plotFaults,  \* history: the tickers whose series.plot raised in this run
    providerCalls, \* history: provider history calls made, per key
    loadCalls,   \* history: load_data calls of this run, per ticker
    measured,    \* history: metric computations of this run, per ticker
    mcapCalls,   \* history: provider market-cap calls of this run, per ticker
    chartIters,  \* history: chart-loop iterations of this run, per ticker
    failed,      \* history: the keys whose provider history call raised
    fetched,     \* history: provider history calls of this run, per ticker
    mcapFailed,  \* history: the tickers whose market-cap call gave no number
    kfn, kdf, kval, kmode, kraises, kret, kdone  \* one call of a kernel function

pipeVars == <<pc, pass, stocks, period, chart_type, cache, histories, metrics,
              table, plotted, errors, ylabel, i, plotFaults, providerCalls,
              loadCalls, measured, mcapCalls, chartIters, failed, fetched,
              mcapFailed>>
kernelVars == <<kfn, kdf, kval, kmode, kraises, kret, kdone>>
vars == <<pipeVars, kernelVars>>

Zero(S) == [x \in S |-> 0]
Inc(f, x) == [f EXCEPT ![x] = @ + 1]

PipeInit ==
    /\ pc = "idle"
    /\ pass = 0
    /\ stocks = <<TickerNames[1], TickerNames[2], TickerNames[3]>>
    /\ period = "1y"
    /\ chart_type = "Relative Price"
    /\ cache = <<>>
    /\ histories = <<>>
    /\ metrics = <<>>
    /\ table = <<>>
    /\ plotted = <<>>
    /\ errors = <<>>
    /\ ylabel = ""
    /\ i = 1
    /\ plotFaults = {}
    /\ providerCalls = Zero(Keys)
    /\ loadCalls = Zero(Tickers)
    /\ measured = Zero(Tickers)
    /\ mcapCalls = Zero(Tickers)
    /\ chartIters = Zero(Tickers)
    /\ failed = {}
    /\ fetched = Zero(Tickers)
    /\ mcapFailed = {}

KernelIdle ==
    /\ kfn = "none"
    /\ kdf = EmptyDataFrame
    /\ kval = NaN
    /\ kmode = "Relative Price"
    /\ kraises = FALSE
    /\ kret = NaN
    /\ kdone = FALSE

(***************************************************************************)
(* The script run (a render pass).  Streamlit runs the script from the top *)
(* on every interaction, also after a run that ended in an exception; the  *)
(* memo of st.cache_data outlives the runs.                                *)
(***************************************************************************)
\* lines 8-21: the widgets return the user's inputs; everything the script
\* builds starts afresh; Types: the chart types the user chooses from
Begin(Types) ==
    /\ pass' = pass + 1
    /\ stocks' \in [1..NumFields -> Tickers]
    /\ period' \in Periods
    /\ chart_type' \in Types
    /\ histories' = <<>>
    /\ metrics' = <<>>
    /\ table' = <<>>
    /\ plotted' = <<>>
    /\ errors' = <<>>
    /\ ylabel' = ""
    /\ i' = 1
    /\ plotFaults' = {}
    /\ loadCalls' = Zero(Tickers)
    /\ measured' = Zero(Tickers)
    /\ mcapCalls' = Zero(Tickers)
    /\ chartIters' = Zero(Tickers)
    /\ fetched' = Zero(Tickers)
    /\ mcapFailed' = {}
    /\ pc' = "load"
    /\ UNCHANGED <<cache, providerCalls, failed, kernelVars>>

\* the first run of the process
Start(Types) == pc = "idle" /\ Begin(Types)

\* a later run, after an interaction
Rerun(Types) == pc \in {"done", "crashed"} /\ pass < MaxPasses /\ Begin(Types)

\* after the last iteration of a loop over n items, go on to phase next
LoopNext(n, next) ==
    IF i = n THEN pc' = next /\ i' = 1 ELSE pc' = pc /\ i' = i + 1

\* line 32, one iteration: histories[s] = load_data(s, period), memoized
\* (lines 24-30); Outcomes: what the provider may answer
LoadStep(Outcomes) ==
    /\ pc = "load"
    /\ LET s == stocks[i]
           key == <<s, period>>
       IN  /\ loadCalls' = Inc(loadCalls, s)
           /\ IF cache_hit(cache, key)
              THEN /\ histories' = dict_set(histories, s, cache[key])
                   /\ UNCHANGED <<cache, providerCalls, failed, fetched>>
              ELSE \E out \in Outcomes :
                   /\ providerCalls' = Inc(providerCalls, key)
                   /\ fetched' = Inc(fetched, s)
                   /\ failed' = IF out = Raised THEN failed \cup {key} ELSE failed
                   /\ cache' = cache_store(cache, key, load_data(out))
                   /\ histories' = dict_set(histories, s, load_data(out))
    /\ LoopNext(NumFields, "metrics")
    /\ UNCHANGED <<pass, stocks, period, chart_type, metrics, table, plotted,
                   errors, ylabel, plotFaults, measured, mcapCalls, chartIters,
                   mcapFailed, kernelVars>>

\* lines 82-88, one iteration: the metrics of one ticker.  compute_returns is
\* evaluated first; an exception leaving it ends the script run.
MetricsStep(Outcomes) ==
    /\ pc = "metrics"
    /\ LET s == histories[i].key
           df == histories[i].val
           ret == compute_returns(df)
       IN  /\ measured' = Inc(measured, s)
           /\ IF ret = Raised
              THEN /\ pc' = "crashed"
                   /\ UNCHANGED <<metrics, mcapCalls, mcapFailed, i>>
              ELSE /\ \E out \in Outcomes :
                        \E shown \in format_mcap(get_marketcap(out)) :
                            /\ metrics' = dict_set(metrics, s,
                                                   [ret |-> ret, mcap |-> shown])
                            /\ mcapFailed' = IF out.k = "num" THEN mcapFailed
                                             ELSE mcapFailed \cup {s}
                   /\ mcapCalls' = Inc(mcapCalls, s)
                   /\ LoopNext(Len(histories), "table")
    /\ UNCHANGED <<pass, stocks, period, chart_type, cache, histories, table,
                   plotted, errors, ylabel, plotFaults, providerCalls,
                   loadCalls, chartIters, failed, fetched, kernelVars>>

\* lines 91-96: the table is shown, one row per key of metrics
DisplayMetrics ==
    /\ pc = "table"
    /\ table' = metrics
    /\ pc' = "chart"
    /\ UNCHANGED <<pass, stocks, period, chart_type, cache, histories, metrics,
                   plotted, errors, ylabel, i, plotFaults, providerCalls,
                   loadCalls, measured, mcapCalls, chartIters, failed,
                   fetched, mcapFailed, kernelVars>>

\* whether the chart loop's body gets as far as series.plot (line 117)
plot_reached(df) == df.cols /\ Len(dropna(to_numeric(df.close))) > 0

\* a faulty variant: the try around the loop, so that an exception ends it
chart_next_break(o, n) ==
    IF o.k = "error" \/ i = n THEN pc' = "render" /\ i' = 1
    ELSE pc' = pc /\ i' = i + 1

\* where the chart loop goes after iteration i of n with outcome o: the
\* try/except is inside the loop, so on to the next ticker whatever happened
chart_next(o, n) == LoopNext(n, "render")

\* lines 98-119, one iteration: one ticker's series is plotted, skipped, or
\* its exception reported; Raises: whether series.plot may raise
ChartStep(Raises) ==
    /\ pc = "chart"
    /\ LET s == histories[i].key
           df == histories[i].val
       IN  \E raises \in (IF plot_reached(df) THEN Raises ELSE {FALSE}) :
           LET o == chart_body(df, chart_type, raises)
           IN  /\ plotFaults' = IF raises THEN plotFaults \cup {s} ELSE plotFaults
               /\ chartIters' = Inc(chartIters, s)
               /\ ylabel' = IF o.ylabel # "" THEN o.ylabel ELSE ylabel
               /\ plotted' = IF o.k = "plot"
                             THEN Append(plotted, [key |-> s, val |-> o.series])
                             ELSE plotted
               /\ errors' = IF o.k = "error" THEN Append(errors, s) ELSE errors
               /\ chart_next(o, Len(histories))
    /\ UNCHANGED <<pass, stocks, period, chart_type, cache, histories, metrics,
                   table, providerCalls, loadCalls, measured, mcapCalls, failed,
                   fetched, mcapFailed, kernelVars>>

\* lines 121-124: legend, st.pyplot, caption
Render ==
    /\ pc = "render"
    /\ pc' = "done"
    /\ UNCHANGED <<pass, stocks, period, chart_type, cache, histories, metrics,
                   table, plotted, errors, ylabel, i, plotFaults, providerCalls,
                   loadCalls, measured, mcapCalls, chartIters, failed,
                   fetched, mcapFailed, kernelVars>>

Init == PipeInit /\ KernelIdle

\* one script run, on every answer of the provider and of the plot
Next ==
    \/ Start(ChartTypes)
    \/ LoadStep(HistoryOutcomes)
    \/ MetricsStep(McapOutcomes)
    \/ DisplayMetrics
    \/ ChartStep(BOOLEAN)
    \/ Render

Spec == Init /\ [][Next]_vars

\* a process: up to MaxPasses script runs sharing the memo, in the default
\* chart type, series.plot not raising
ProcessNext ==
    \/ Start({"Relative Price"})
    \/ Rerun({"Relative Price"})
    \/ LoadStep(ProcessHistoryOutcomes)
    \/ MetricsStep(ProcessMcapOutcomes)
    \/ DisplayMetrics
    \/ ChartStep({FALSE})
    \/ Render

ProcessSpec == Init /\ [][ProcessNext]_vars

(***************************************************************************)
(* The kernel functions on their own: one call of one function on an input *)
(* drawn from the bounded sets.                                            *)
(***************************************************************************)
KernelInit ==
    /\ PipeInit
    /\ kdone = FALSE
    /\ kret = NaN
    /\ \/ /\ kfn = "compute_returns"
          /\ kdf \in KernelTables
          /\ kval = NaN /\ kmode = "Relative Price" /\ kraises = FALSE
       \/ /\ kfn = "format_mcap"
          /\ kval \in McapSamples
          /\ kdf = EmptyDataFrame /\ kmode = "Relative Price" /\ kraises = FALSE
       \/ /\ kfn = "chart_body"
          /\ kdf \in KernelTables
          /\ kmode \in ChartTypes
          /\ kraises \in BOOLEAN
          /\ kval = NaN

CallComputeReturns ==
    /\ kfn = "compute_returns" /\ ~kdone
    /\ kret' = compute_returns(kdf)
    /\ kdone' = TRUE
    /\ UNCHANGED <<pipeVars, kfn, kdf, kval, kmode, kraises>>

CallFormatMcap ==
    /\ kfn = "format_mcap" /\ ~kdone
    /\ kret' \in format_mcap(kval)
    /\ kdone' = TRUE
    /\ UNCHANGED <<pipeVars, kfn, kdf, kval, kmode, kraises>>

CallChartBody ==
    /\ kfn = "chart_body" /\ ~kdone
    /\ kret' = chart_body(kdf, kmode, kraises)
    /\ kdone' = TRUE
    /\ UNCHANGED <<pipeVars, kfn, kdf, kval, kmode, kraises>>

KernelNext == CallComputeReturns \/ CallFormatMcap \/ CallChartBody

KernelSpec == KernelInit /\ [][KernelNext]_vars

(***************************************************************************)
(* The claims about the kernel functions, under KernelSpec.                *)
(***************************************************************************)
IsNumber(c) == c.k = "num"
\* the observations that remain after the missing ones are dropped
Remaining(df) == SelectSeq(df.close, notna)
\* the numeric, non-missing observations
Cleaned(df) == SelectSeq(df.close, IsNumber)
\* x is farther from zero than the tolerance of 1e-8
BeyondTolerance(x) == x.n > x.d \/ x.n < -x.d
\* the number r equals (end / start - 1) * 100
IsReturnOf(r, start, end) ==
    r.n * start.n * end.d = 100 * (end.n * start.d - start.n * end.d) * r.d

ReturnsCalled == kfn = "compute_returns" /\ kdone

\* C1: when the Close column, after dropping missing observations, is
\* non-empty and its first remaining value is a number beyond the zero
\* tolerance, compute_returns returns (end / start - 1) * 100 with start the
\* first and end the last remaining value: missing observations at the head and
\* tail are skipped, one remaining value gives 0, a falling price a negative
\* result.
C1_ReturnFormula ==
    ReturnsCalled /\ kdf.cols =>
        LET rem == Remaining(kdf)
        IN  (/\ Len(rem) > 0
             /\ IsNumber(rem[1]) /\ BeyondTolerance(rem[1])
             /\ IsNumber(rem[Len(rem)]))
            => /\ IsNumber(kret)
               /\ IsReturnOf(kret, rem[1], rem[Len(rem)])
               /\ (Len(rem) = 1 => kret = Num(0))
               /\ (rem[1].n > 0 /\ rem[Len(rem)].n < rem[1].n => kret.n < 0)

\* a missing observation at the head is skipped: [NaN, 2, 3] gives 50
C1_Witness ==
    ReturnsCalled /\ kdf = Table(<<NaN, Num(2), Num(3)>>) /\ kret = Num(50)

\* C2: compute_returns never raises; its result is the undefined sentinel NaN
\* for the empty table, the all-missing Close column, the first remaining value
\* within the tolerance of zero, and a division that fails, and in no other case.
C2_NeverRaises ==
    ReturnsCalled =>
        LET rem == Remaining(kdf)
            noData == ~kdf.cols \/ Len(rem) = 0
        IN  /\ kret # Raised
            /\ kret = NaN <=>
                   \/ noData
                   \/ IsNumber(rem[1]) /\ ~BeyondTolerance(rem[1])
                   \/ ~IsNumber(rem[Len(rem)])

\* the hundredths x are val / unit rounded to two decimals
IsFixed2Of(x, val, unit) ==
    LET per == unit \div 100
    IN  2 * Abs(x * per - val) <= per

McapCalled == kfn = "format_mcap" /\ kdone

\* C3: format_mcap chooses its branch by strict > against 1e12, 1e9, 1e6 in
\* that order: NaN gives "NA"; above 1e12 the value / 1e12 with T; else above
\* 1e9 the value / 1e9 with B; else above 1e6 the value / 1e6 with M; else the
\* plain value.  So exactly 1e12 is shown as 1000.00 B, exactly 1e9 as
\* 1000.00 M, exactly 1e6 and every smaller or negative value as the plain
\* number.
C3_StrictThresholds ==
    McapCalled =>
        /\ isna(kval) => kret = [suffix |-> "NA", x |-> 0]
        /\ IsNumber(kval) =>
              LET v == kval.n
              IN  /\ v > Trillion =>
                        kret.suffix = "T" /\ IsFixed2Of(kret.x, v, Trillion)
                  /\ v <= Trillion /\ v > Billion =>
                        kret.suffix = "B" /\ IsFixed2Of(kret.x, v, Billion)
                  /\ v <= Billion /\ v > Million =>
                        kret.suffix = "M" /\ IsFixed2Of(kret.x, v, Million)
                  /\ v <= Million => kret = [suffix |-> "", x |-> v]
                  /\ v = Trillion => kret = [suffix |-> "B", x |-> 100000]
                  /\ v = Billion => kret = [suffix |-> "M", x |-> 100000]

\* exactly 1e12 is shown as 1000.00 B
C3_Witness ==
    McapCalled /\ kval = Num(Trillion) /\ kret = [suffix |-> "B", x |-> 100000]

\* every value of series is the value of clean at its place, divided by base
\* and multiplied by 100
IsRebased(series, clean, base) ==
    /\ Len(series) = Len(clean)
    /\ \A j \in 1..Len(clean) :
          /\ IsNumber(series[j])
          /\ series[j].n * base.n * clean[j].d = 100 * clean[j].n * base.d * series[j].d
    /\ series[1] = Num(100)

\* a call of the chart loop's body that hands a series to series.plot, which
\* does not raise
ChartCalled ==
    /\ kfn = "chart_body" /\ kdone /\ ~kraises
    /\ kdf.cols /\ Len(Cleaned(kdf)) > 0

\* C4 as claimed: the series handed to the plot is, in relative mode with a
\* non-zero first cleaned value, every value divided by the first and
\* multiplied by 100 (the first plotted value is 100, order and length kept);
\* in relative mode with a zero first value, and in actual mode, the cleaned
\* series unchanged.
C4_RebaseUnlessZero ==
    ChartCalled =>
        LET clean == Cleaned(kdf)
        IN  /\ kret.k = "plot"
            /\ kmode = "Relative Price" /\ clean[1].n # 0 =>
                  IsRebased(kret.series, clean, clean[1])
            /\ kmode = "Relative Price" /\ clean[1].n = 0 => kret.series = clean
            /\ kmode = "Actual Price" => kret.series = clean

\* C4 as amended: the same with "non-zero" read as np.isclose reads it: the
\* series is rebased when the first cleaned value is farther than 1e-8 from
\* zero, and left unchanged when it is within 1e-8 of zero.
C4_RebaseUnlessNearZero ==
    ChartCalled =>
        LET clean == Cleaned(kdf)
        IN  /\ kret.k = "plot"
            /\ kmode = "Relative Price" /\ BeyondTolerance(clean[1]) =>
                  IsRebased(kret.series, clean, clean[1])
            /\ kmode = "Relative Price" /\ ~BeyondTolerance(clean[1]) =>
                  kret.series = clean
            /\ kmode = "Actual Price" => kret.series = clean

\* a column with a non-numeric and a missing observation is cleaned and
\* rebased: ["abc", 2, 3] is plotted as [100, 150]
C4_Witness ==
    /\ ChartCalled /\ kmode = "Relative Price"
    /\ kdf = Table(<<Str, Num(2), Num(3)>>)
    /\ kret.series = <<Num(100), Num(150)>>

(***************************************************************************)
(* The claims about one script run, under Spec.                            *)
(***************************************************************************)
Range(q) == {q[j] : j \in 1..Len(q)}

\* the chart loop has run through
ChartLoopOver == pc \in {"render", "done"}

\* the row of the table for the ticker at place j of histories
Row(j) == table[j].val

\* the chart loop's body raises for the entry h of histories: the table has
\* no Close column (KeyError, line 100) or series.plot raised for the ticker
BodyFails(h) == ~h.val.cols \/ h.key \in plotFaults

\* the entry h of histories gets a line on the chart
BodyPlots(h) == ~BodyFails(h) /\ Len(Cleaned(h.val)) > 0

\* the line the entry h gets when it is the only ticker and nothing fails
AloneLine(h) == [key |-> h.key, val |-> chart_body(h.val, chart_type, FALSE).series]

LinesOf(hs) == [j \in 1..Len(hs) |-> AloneLine(hs[j])]

\* C5: a ticker whose fetched series is empty (the provider's empty table, or
\* the empty table load_data returns after a caught failure) has the return
\* NaN and the market cap "NA", and is left out of the chart with no error
\* reported for it, the other tickers' lines being what they are without it.
\* (The market cap is a fetch of its own; the clause is read for the ticker
\* the provider has no market cap for either.)
C5_EmptySeriesSilent ==
    pc = "done" =>
        /\ \A j \in 1..Len(histories) :
              empty(histories[j].val) =>
                  /\ Row(j).ret = NaN
                  /\ histories[j].key \in mcapFailed => Row(j).mcap.suffix = "NA"
                  /\ histories[j].key \notin Range(dict_keys(plotted))
                  /\ histories[j].key \notin Range(errors)
        /\ plotted = LinesOf(SelectSeq(histories, BodyPlots))

\* C6: in the chart loop a failure for one ticker never ends the loop: each
\* failing ticker is reported exactly once, in its place, every ticker gets
\* its iteration, and every other ticker with a non-empty series is plotted as
\* it is when nothing else fails.
C6_FailuresIsolated ==
    ChartLoopOver =>
        /\ errors = dict_keys(SelectSeq(histories, BodyFails))
        /\ plotted = LinesOf(SelectSeq(histories, BodyPlots))
        /\ \A j \in 1..Len(histories) : chartIters[histories[j].key] = 1

\* series.plot raised for the first ticker; the second is plotted all the same
C6_Witness ==
    /\ pc = "done" /\ Len(histories) = 2
    /\ histories[1].key \in plotFaults
    /\ errors = <<histories[1].key>>
    /\ dict_keys(plotted) = <<histories[2].key>>

\* the provider failed on every request of this run
TotalOutage ==
    \A t \in Range(stocks) : <<t, period>> \in failed /\ t \in mcapFailed

\* C7: a script run always gets to the final render step, whatever the
\* provider answers, with the table and the chart produced and no exception
\* leaving the script; when the provider fails for every ticker, every return
\* is NaN, every market cap "NA", and the chart has no line.
C7_AlwaysCompletes ==
    /\ pc # "crashed"
    /\ pc = "done" /\ TotalOutage =>
          /\ \A j \in 1..Len(table) : Row(j).ret = NaN /\ Row(j).mcap.suffix = "NA"
          /\ plotted = <<>>

(***************************************************************************)
(* The claims about a process, under ProcessSpec.                          *)
(***************************************************************************)
\* load_data has been called for every field of this run
Loaded == pc \in {"metrics", "table", "chart", "render", "done", "crashed"}

\* C8: the history fetch is memoized by (ticker, period) with no eviction:
\* the provider's history call is made at most once per pair, every load_data
\* call returns what the first call with its pair stored, and a stored entry
\* is never removed or replaced.
C8_MemoizedNoEviction ==
    /\ [](/\ \A key \in Keys :
               /\ providerCalls[key] <= 1
               /\ cache_hit(cache, key) <=> providerCalls[key] = 1
          /\ \A j \in 1..Len(histories) :
               /\ cache_hit(cache, <<histories[j].key, period>>)
               /\ histories[j].val = cache[<<histories[j].key, period>>])
    /\ [][\A key \in DOMAIN cache :
             key \in DOMAIN cache' /\ cache'[key] = cache[key]]_vars

\* a second run whose three fields all hold the one pair the first run stored:
\* the provider has been asked once in the whole process
C8_Witness ==
    /\ pass = 2 /\ Loaded
    /\ DOMAIN cache = {<<stocks[1], period>>}
    /\ Range(stocks) = {stocks[1]}
    /\ providerCalls[<<stocks[1], period>>] = 1
    /\ fetched[stocks[1]] = 0
    /\ loadCalls[stocks[1]] = NumFields

\* the metrics of this run are computed
Measured == pc \in {"table", "chart", "render", "done"}

\* C9: a failed history fetch is memoized like a successful one: the pair
\* whose provider call raised holds the empty table, the provider is not asked
\* again for it, every run with that pair gets the empty table (return NaN, no
\* line) although the provider would answer; the market-cap fetch is made
\* anew in every run.
C9_FailureMemoized ==
    /\ \A key \in failed :
          /\ cache_hit(cache, key)
          /\ cache[key] = EmptyDataFrame
          /\ providerCalls[key] = 1
    /\ \A j \in 1..Len(histories) :
          <<histories[j].key, period>> \in failed =>
              /\ histories[j].val = EmptyDataFrame
              /\ Measured => metrics[j].val.ret = NaN
              /\ histories[j].key \notin Range(dict_keys(plotted))
    /\ Measured => \A t \in Range(stocks) : mcapCalls[t] = 1

\* a second run on the one pair whose fetch raised in the first run: no new
\* provider call, the empty table again, a new market-cap call
C9_Witness ==
    /\ pass = 2 /\ pc = "done"
    /\ DOMAIN cache = {<<stocks[1], period>>}
    /\ failed = {<<stocks[1], period>>}
    /\ fetched[stocks[1]] = 0
    /\ histories[1].val = EmptyDataFrame
    /\ mcapCalls[stocks[1]] = 1

\* the distinct values of q in the order of their first occurrence
RECURSIVE FirstOccurrences(_)
FirstOccurrences(q) ==
    IF q = <<>> THEN <<>>
    ELSE LET front == FirstOccurrences(SubSeq(q, 1, Len(q) - 1))
             last == q[Len(q)]
         IN  IF last \in Range(front) THEN front ELSE Append(front, last)

\* the number of fields that hold ticker t
Occurrences(t) == Cardinality({j \in 1..NumFields : stocks[j] = t})

\* the part of C10 about rows, iterations and order
Deduplicated ==
    /\ Loaded => dict_keys(histories) = FirstOccurrences(stocks)
    /\ Measured =>
          /\ dict_keys(metrics) = FirstOccurrences(stocks)
          /\ \A t \in Tickers : mcapCalls[t] = IF t \in Range(stocks) THEN 1 ELSE 0
    /\ pc \in {"chart", "render", "done"} =>
          /\ dict_keys(table) = FirstOccurrences(stocks)
          /\ Len(table) = Cardinality(Range(stocks))
    /\ pc = "done" =>
          /\ \A t \in Tickers :
                /\ measured[t] = IF t \in Range(stocks) THEN 1 ELSE 0
                /\ chartIters[t] = IF t \in Range(stocks) THEN 1 ELSE 0
          /\ dict_keys(plotted) =
                SelectSeq(FirstOccurrences(stocks),
                          LAMBDA t : t \in Range(dict_keys(plotted)))

\* C10 as claimed: the three fields are de-duplicated: rows and chart-loop
\* iterations are as many as the distinct tickers, in the order of first
\* occurrence, and each distinct ticker is fetched, measured and plotted
\* exactly once in every run ("fetched" read either as a call of load_data or
\* as a call of the provider).
C10_EachTickerOnce ==
    /\ Deduplicated
    /\ pc = "done" =>
          \/ \A t \in Range(stocks) : loadCalls[t] = 1
          \/ \A t \in Range(stocks) : fetched[t] = 1

\* C10 as amended: rows, iterations and order as claimed; each distinct ticker
\* is measured and gets its chart-loop iteration exactly once; load_data is
\* called once per field, so once per occurrence of a ticker, and the
\* provider at most once per distinct ticker in a run.
C10_Deduplicated ==
    /\ Deduplicated
    /\ Loaded =>
          \A t \in Tickers : loadCalls[t] = Occurrences(t) /\ fetched[t] <= 1

\* the fields A, B, A: two rows in the order A, B; load_data called twice for A
C10_Witness ==
    /\ pc = "done"
    /\ stocks[1] # stocks[2] /\ stocks[3] = stocks[1]
    /\ dict_keys(table) = <<stocks[1], stocks[2]>>
    /\ loadCalls[stocks[1]] = 2
    /\ fetched[stocks[1]] = 1

=============================================================================
